---- MODULE Spec2Model ----
(***************************************************************************)
(* A model of kagetech/base-component: the BaseComponent property-diff and *)
(* render lifecycle (src/src/base_component.js), the Bloc state container  *)
(* it binds to, and the window-keyed navigation parameter store.           *)
(*                                                                         *)
(* JavaScript values are modelled as strings.  "undefined" stands for the  *)
(* value undefined and "NaN" for the number NaN.  Objects are JavaScript   *)
(* property maps: functions from a finite set of string keys to values.    *)
(***************************************************************************)
EXTENDS Integers, Sequences, FiniteSets, TLC

VARIABLES
    props,          \* BaseComponent.#props
    hasBloc,        \* whether BaseComponent.#bloc is a Bloc (TRUE) or undefined
    subscription,   \* BaseComponent.#subscription: 0 = undefined, else the Subscription's id
    isConnected,    \* HTMLElement.isConnected
    mounts,         \* number of connectedCallback invocations so far
    blocClass,      \* the class of the Bloc: "TestBloc", "CounterBloc" or "TodoBloc"
    blocState,      \* Bloc.state
    blocPhase,      \* "open", "closing" or "closed"
    queue,          \* events added to the Bloc and not yet reduced
    running,        \* the reduction in flight: NoGen or [event, pc]
    observers,      \* the Bloc's live subscriptions, in subscription order
    added,          \* number of Bloc.add invocations so far
    service,        \* MockTodoService: #todos and #nextId
    savedTodo,      \* the local savedTodo of the TodoBloc reduction in flight
    deferred,       \* the RemoveTodo events whose removal is awaited, in order
    history,        \* what the Bloc has accepted and emitted so far
    window,         \* the navigation store: window[path] = params
    pending,        \* the path the Router was last asked to go to, or NoPath
    delivered,      \* per store key, the stashed params a route entry has read since the last stash
    replaced,       \* the store key and the params last overwritten, since the last fresh stash
    heldBag,        \* what a caller that read this.props before the last setProps finds after it
    op,             \* the last operation: its name, its input, and a tick
    calls,          \* the calls the last operation made, in order
    rendered        \* the data of the most recent render, or NoData

vars == << props, hasBloc, subscription, isConnected, mounts, blocClass,
           blocState, blocPhase, queue, running, observers, added, service,
           savedTodo, deferred, history, window, pending, delivered, replaced,
           heldBag,
           op, calls,
           rendered >>

compVars == << props, hasBloc, subscription, isConnected, mounts, rendered >>
blocVars == << blocClass, blocState, blocPhase, queue, running, observers,
              added, service, savedTodo, deferred, history >>
navVars  == << window, pending, delivered, replaced, heldBag >>

-----------------------------------------------------------------------------
(* Bounds of the model.                                                    *)

MaxMounts == 2
MaxEvents == 2

(* Values of the model.                                                    *)

Undefined == "undefined"
NaN == "NaN"

Keys == {"name", "age"}
Values == {"Alice", NaN}

\* Every object over the given keys and values, the empty object included.
Objects(K, V) == UNION {[D -> V] : D \in SUBSET K}

Partials == Objects(Keys, Values)

Events == {"next"}

EmptyObject == [k \in {} |-> Undefined]
NoGen == [event |-> "", pc |-> -1]
NoData == [none |-> "none"]
\* No stashed params have been overwritten.
NoReplaced == [path |-> "", params |-> EmptyObject]

NoPath == ""

\* No caller has read this.props around a setProps call.
NoBag == [held |-> EmptyObject, same |-> TRUE]

\* null where a to-do object is expected.
NullRef == [ref |-> "null"]

\* What the Bloc has done so far: the states emitted, each with the event
\* it was yielded for; the state the last reduction started from and the
\* number of states emitted before it; and the live subscription of the
\* component if it was taken after close().
NoHistory(state) ==
    [emitted |-> << >>, from |-> state, mark |-> 0, late |-> {}]

-----------------------------------------------------------------------------
(* JavaScript primitives.                                                  *)

\* a === b on primitives and object references: NaN is not equal to itself.
StrictEquals(a, b) == a = b /\ a # NaN

\* { ...a, ...b }: the keys of both, b's value where both have the key.
Spread(a, b) == [k \in (DOMAIN a) \cup (DOMAIN b) |->
                    IF k \in DOMAIN b THEN b[k] ELSE a[k]]

Call(c, d) == [call |-> c, data |-> d]

\* The record of an operation: its name, its input, and a tick that tells
\* it from the operation before it.
Op(n, a) == [name |-> n, arg |-> a, tick |-> ~op.tick]

\* The calls named c among a sequence of calls.
CallsOf(cs, c) == SelectSeq(cs, LAMBDA x : x.call = c)

-----------------------------------------------------------------------------
(* BaseComponent.                                                          *)

\* The render target: attachShadow in the constructor creates it.
shadowRoot == TRUE

\* Mutant: the key counts are not compared.
shallowEquals_NoCount(obj1, obj2) ==
    \A key \in DOMAIN obj1 :
        key \in DOMAIN obj2 /\ StrictEquals(obj1[key], obj2[key])

shallowEquals(obj1, obj2) ==
    /\ Cardinality(DOMAIN obj1) = Cardinality(DOMAIN obj2)
    /\ \A key \in DOMAIN obj1 :
          key \in DOMAIN obj2 /\ StrictEquals(obj1[key], obj2[key])

\* What requestUpdate reads as this.#bloc?.state.
BlocStateOf(has, st) == IF has THEN st ELSE Undefined

\* { ...this.#props, state }
RenderData(pr, st) == Spread(pr, [state |-> st])

\* Mutant: the render data carries the props and no state.
requestUpdate_PropsOnly(pr, st) ==
    << Call("styles", EmptyObject), Call("render", RenderData(pr, Undefined)) >>
    \o (IF shadowRoot
        THEN << Call("litRender", RenderData(pr, Undefined)) >> ELSE << >>)

\* requestUpdate: the calls it makes, given #props and this.#bloc?.state.
requestUpdate(pr, st) ==
    << Call("styles", EmptyObject), Call("render", RenderData(pr, st)) >>
    \o (IF shadowRoot THEN << Call("litRender", RenderData(pr, st)) >> ELSE << >>)

\* requestUpdate as a function of what it reads: #props, this.#bloc?.state
\* and this.shadowRoot.  The template is built before shadowRoot is tested.
requestUpdateOn(pr, st, root) ==
    << Call("styles", EmptyObject), Call("render", RenderData(pr, st)) >>
    \o (IF root THEN << Call("litRender", RenderData(pr, st)) >> ELSE << >>)

\* requestUpdate() called from outside, this.shadowRoot read as root.
RequestUpdateCall ==
    \E root \in BOOLEAN :
        /\ op' = Op("requestUpdate", [shadowRoot |-> root])
        /\ calls' = requestUpdateOn(props, BlocStateOf(hasBloc, blocState), root)
        /\ rendered' = IF root
                       THEN RenderData(props, BlocStateOf(hasBloc, blocState))
                       ELSE rendered
        /\ UNCHANGED << props, hasBloc, subscription, isConnected, mounts >>
        /\ UNCHANGED blocVars
        /\ UNCHANGED navVars

\* The data of the last render among the calls, or the previous one.
LastRendered(cs, old) ==
    LET rs == CallsOf(cs, "litRender")
    IN  IF rs = << >> THEN old ELSE rs[Len(rs)].data

\* Mutant: the partial props replace the bag instead of merging into it.
setPropsBag_Replace(pr, partialProps) ==
    IF ~shallowEquals(pr, partialProps) THEN partialProps ELSE pr

\* The new #props of setProps(partialProps).
setPropsBag(pr, partialProps) ==
    LET newProps == Spread(pr, partialProps)
    IN  IF ~shallowEquals(pr, newProps) THEN newProps ELSE pr

\* Mutant: the render is given the bag as it was before the merge.
setPropsCalls_Stale(pr, partialProps, connected, st) ==
    LET newProps == Spread(pr, partialProps)
    IN  IF ~shallowEquals(pr, newProps) /\ connected
        THEN requestUpdate(pr, st)
        ELSE << >>

\* Mutant: the render is requested when the component is not connected.
setPropsCalls_WhenDisconnected(pr, partialProps, connected, st) ==
    LET newProps == Spread(pr, partialProps)
    IN  IF ~shallowEquals(pr, newProps) /\ ~connected
        THEN requestUpdate(newProps, st)
        ELSE << >>

\* Mutant: the render is requested whether or not the component is connected.
setPropsCalls_Unconnected(pr, partialProps, connected, st) ==
    LET newProps == Spread(pr, partialProps)
    IN  IF ~shallowEquals(pr, newProps)
        THEN requestUpdate(newProps, st)
        ELSE << >>

\* The calls of setProps(partialProps).
setPropsCalls(pr, partialProps, connected, st) ==
    LET newProps == Spread(pr, partialProps)
    IN  IF ~shallowEquals(pr, newProps) /\ connected
        THEN requestUpdate(newProps, st)
        ELSE << >>

setProps(partialProps) ==
    /\ props' = setPropsBag(props, partialProps)
    /\ calls' = setPropsCalls(props, partialProps, isConnected,
                              BlocStateOf(hasBloc, blocState))
    /\ rendered' = LastRendered(calls', rendered)
    /\ op' = Op("setProps", partialProps)
    /\ UNCHANGED << hasBloc, subscription, isConnected, mounts >>
    /\ UNCHANGED blocVars
    /\ UNCHANGED navVars

SetProps == \E partialProps \in Partials : setProps(partialProps)

\* Mutant: the partial props are assigned into the current #props object.
setPropsHeld_Assign(pr, partialProps) == Spread(pr, partialProps)

\* The object that was #props before setProps(partialProps), as it reads
\* after the call: newProps is a new object literal and no property of the
\* old object is written.
setPropsHeld(pr, partialProps) == pr

\* Whether #props after setProps(partialProps) is the very object it was
\* before: it is reassigned, to the new object, only when the bags differ.
setPropsSame(pr, partialProps) == shallowEquals(pr, Spread(pr, partialProps))

\* A caller reads this.props, calls setProps(partialProps) and looks at the
\* object it read and at this.props again.
setPropsObserved(partialProps) ==
    /\ props' = setPropsBag(props, partialProps)
    /\ calls' = setPropsCalls(props, partialProps, isConnected,
                              BlocStateOf(hasBloc, blocState))
    /\ rendered' = LastRendered(calls', rendered)
    /\ op' = Op("setProps", partialProps)
    /\ heldBag' = [held |-> setPropsHeld(props, partialProps),
                   same |-> setPropsSame(props, partialProps)]
    /\ UNCHANGED << hasBloc, subscription, isConnected, mounts >>
    /\ UNCHANGED blocVars
    /\ UNCHANGED << window, pending, delivered, replaced >>

SetPropsObserved == \E partialProps \in Partials : setPropsObserved(partialProps)

\* The bags #shallowEquals is compared on: every object over Keys whose
\* values are a string, NaN or undefined.
EqualsBags == Objects(Keys, {"Alice", NaN, Undefined})

\* #shallowEquals(obj1, obj2) called on two bags; the call returns its value.
ShallowEqualsCall ==
    \E obj1 \in EqualsBags, obj2 \in EqualsBags :
        /\ op' = Op("shallowEquals", [obj1 |-> obj1, obj2 |-> obj2])
        /\ calls' = << Call("return", shallowEquals(obj1, obj2)) >>
        /\ UNCHANGED compVars
        /\ UNCHANGED blocVars
        /\ UNCHANGED navVars

-----------------------------------------------------------------------------
(* Bloc: the state container.  One event is reduced at a time, in the      *)
(* order added; close() lets the reduction in flight finish.               *)

\* TestBloc.mapEventToState: one step of the generator from position pc.
mapEventToState(event, pc, state) ==
    IF pc = 0
    THEN [done |-> FALSE, value |-> state \o event]
    ELSE [done |-> TRUE, value |-> state]

\* The states of the CounterBloc.
CounterInitialized == [type |-> "CounterInitialized", value |-> 0]
CounterUpdated(value) == [type |-> "CounterUpdated", value |-> value]

CounterEvents == {"CounterIncrement", "CounterDecrement"}

\* Mutant: the decrement is guarded by value >= 0.
CounterBloc_mapEventToState_GuardAtZero(event, pc, state) ==
    IF pc = 0 /\ event = "CounterIncrement"
    THEN [done |-> FALSE, value |-> CounterUpdated(state.value + 1)]
    ELSE IF pc = 0 /\ event = "CounterDecrement" /\ state.value >= 0
         THEN [done |-> FALSE, value |-> CounterUpdated(state.value - 1)]
         ELSE [done |-> TRUE, value |-> state]

\* Mutant: the decrement is not guarded.
CounterBloc_mapEventToState_Unguarded(event, pc, state) ==
    IF pc = 0 /\ event = "CounterIncrement"
    THEN [done |-> FALSE, value |-> CounterUpdated(state.value + 1)]
    ELSE IF pc = 0 /\ event = "CounterDecrement"
         THEN [done |-> FALSE, value |-> CounterUpdated(state.value - 1)]
         ELSE [done |-> TRUE, value |-> state]

\* CounterBloc.mapEventToState: one step of the generator from position pc.
CounterBloc_mapEventToState(event, pc, state) ==
    IF pc = 0 /\ event = "CounterIncrement"
    THEN [done |-> FALSE, value |-> CounterUpdated(state.value + 1)]
    ELSE IF pc = 0 /\ event = "CounterDecrement" /\ state.value > 0
         THEN [done |-> FALSE, value |-> CounterUpdated(state.value - 1)]
         ELSE [done |-> TRUE, value |-> state]

\* The states of the TodoBloc.
TodoEdited(todo) == [type |-> "TodoEdited", todo |-> todo]
TodoSaving(todo) == [type |-> "TodoSaving", todo |-> todo]
TodoSaved(todo) == [type |-> "TodoSaved", todo |-> todo]
TodoNotSaved(todo) == [type |-> "TodoNotSaved", todo |-> todo]

\* The events added to the TodoBloc: new AddTodo({ contents: 'a' }) and
\* new UpdateTodo({ id: 1, contents: 'b' }).
TodoEvents == {"AddTodo(a)", "UpdateTodo(1,b)"}

\* Every new event is an object of its own: the n-th event added carries n
\* primes after its text.
RECURSIVE Primes(_)
Primes(n) == IF n = 0 THEN "" ELSE "'" \o Primes(n - 1)

\* The text of an event and the number of primes it carries.
EventText(event) ==
    CHOOSE t \in TodoEvents : \E n \in 0..Len(event) : event = t \o Primes(n)
EventOrdinal(event) ==
    CHOOSE n \in 0..Len(event) : event = EventText(event) \o Primes(n)

\* event.constructor
EventType(event) ==
    IF EventText(event) = "AddTodo(a)" THEN "AddTodo" ELSE "UpdateTodo"

\* event.todo
EventTodo(event) ==
    IF EventText(event) = "AddTodo(a)"
    THEN [contents |-> "a"]
    ELSE [id |-> 1, contents |-> "b"]

\* MockTodoService after construction.
NoService == [todos |-> << >>, nextId |-> 1]

\* MockTodoService.addTodo(todo): the service afterwards and the to-do the
\* promise resolves to.
addTodo(svc, todo) ==
    LET id == svc.nextId
        newTodo == Spread([id |-> id], todo)
    IN  [service |-> [todos |-> [k \in (DOMAIN svc.todos) \cup {id} |->
                                    IF k = id THEN newTodo ELSE svc.todos[k]],
                      nextId |-> id + 1],
         result |-> newTodo]

\* MockTodoService.updateTodo(todo)
updateTodo(svc, todo) ==
    IF todo.id \notin DOMAIN svc.todos
    THEN [service |-> svc, result |-> NullRef]
    ELSE [service |-> [svc EXCEPT !.todos[todo.id] = todo], result |-> todo]

\* Mutant: the outcome is TodoSaved whatever the service returned.
TodoBloc_mapEventToState_AlwaysSaved(event, pc, svc, saved) ==
    CASE pc = 0 ->
           [kind |-> "yield", value |-> TodoSaving(EventTodo(event)),
            service |-> svc, local |-> saved]
      [] pc = 1 ->
           LET r == IF EventType(event) = "AddTodo"
                    THEN addTodo(svc, EventTodo(event))
                    ELSE updateTodo(svc, EventTodo(event))
           IN  [kind |-> "call", value |-> NullRef,
                service |-> r.service, local |-> r.result]
      [] pc = 2 ->
           [kind |-> "yield", value |-> TodoSaved(saved),
            service |-> svc, local |-> saved]
      [] OTHER ->
           [kind |-> "done", value |-> NullRef, service |-> svc, local |-> saved]

\* TodoBloc.mapEventToState: one step of the generator from position pc.
\* It yields TodoSaving, calls the service and awaits it, and yields the
\* outcome.
TodoBloc_mapEventToState(event, pc, svc, saved) ==
    CASE pc = 0 ->
           [kind |-> "yield", value |-> TodoSaving(EventTodo(event)),
            service |-> svc, local |-> saved]
      [] pc = 1 ->
           LET r == IF EventType(event) = "AddTodo"
                    THEN addTodo(svc, EventTodo(event))
                    ELSE updateTodo(svc, EventTodo(event))
           IN  [kind |-> "call", value |-> NullRef,
                service |-> r.service, local |-> r.result]
      [] pc = 2 ->
           [kind |-> "yield",
            value |-> IF EventType(event) = "AddTodo" \/ saved # NullRef
                      THEN TodoSaved(saved)
                      ELSE TodoNotSaved(EventTodo(event)),
            service |-> svc, local |-> saved]
      [] OTHER ->
           [kind |-> "done", value |-> NullRef, service |-> svc, local |-> saved]

\* The states of the TodoListBloc.
TodoListLoading == [type |-> "TodoListLoading"]
TodoListLoaded(todos) == [type |-> "TodoListLoaded", todos |-> todos]

\* The to-dos the list shows: two to-dos added through the service.
Items == {[id |-> 1, contents |-> "a"], [id |-> 2, contents |-> "a"]}

\* new RemoveTodo(item), one text per item.
RemoveTodoText(item) == IF item.id = 1 THEN "RemoveTodo(1)" ELSE "RemoveTodo(2)"

\* The RemoveTodo events there can be, each an object of its own.
RemoveTodoEvents ==
    {RemoveTodoText(item) \o Primes(n) : item \in Items, n \in 1..MaxEvents}

\* event.constructor
ListEventType(event) ==
    IF event \in RemoveTodoEvents THEN "RemoveTodo" ELSE "LoadTodoList"

\* event.todo of a RemoveTodo event
RemoveTodoItem(event) ==
    CHOOSE item \in Items :
        \E n \in 1..MaxEvents : event = RemoveTodoText(item) \o Primes(n)

\* The LoadTodoList event _mapRemoveTodoToState adds for a RemoveTodo event.
ReloadOf(event) == "LoadTodoList<-" \o event

\* Mutant: the to-do stays in the service.
removeTodo_Keep(svc, todo) == [service |-> svc, result |-> todo]

\* MockTodoService.removeTodo(todo)
removeTodo(svc, todo) ==
    [service |-> [svc EXCEPT !.todos =
                     [k \in (DOMAIN svc.todos) \ {todo.id} |-> svc.todos[k]]],
     result |-> todo]

\* MockTodoService.searchTodos(): the to-dos in insertion order, which is
\* the order of their ids.
searchTodos(svc) ==
    LET ids == SelectSeq([i \in 1..(svc.nextId - 1) |-> i],
                         LAMBDA i : i \in DOMAIN svc.todos)
    IN  [j \in DOMAIN ids |-> svc.todos[ids[j]]]

\* TodoListBloc.mapEventToState: one step of the generator from position
\* pc.  LoadTodoList awaits searchTodos(), keeps the result in its local
\* todos and yields TodoListLoaded; RemoveTodo calls _mapRemoveTodoToState,
\* which calls removeTodo, and yields nothing.
TodoListBloc_mapEventToState(event, pc, svc, local) ==
    IF ListEventType(event) = "LoadTodoList"
    THEN CASE pc = 0 ->
                [kind |-> "call", value |-> NullRef,
                 service |-> svc, local |-> [todos |-> searchTodos(svc)]]
           [] pc = 1 ->
                [kind |-> "yield", value |-> TodoListLoaded(local.todos),
                 service |-> svc, local |-> local]
           [] OTHER ->
                [kind |-> "done", value |-> NullRef,
                 service |-> svc, local |-> local]
    ELSE CASE pc = 0 ->
                [kind |-> "call", value |-> NullRef,
                 service |-> removeTodo(svc, RemoveTodoItem(event)).service,
                 local |-> local]
           [] OTHER ->
                [kind |-> "done", value |-> NullRef,
                 service |-> svc, local |-> local]

\* Mutant: _mapRemoveTodoToState adds no LoadTodoList.
mapRemoveTodoToState_NoReload(class, event, def) == def

\* _mapRemoveTodoToState is called and not awaited: what it does after
\* removeTodo's promise is left for later.
mapRemoveTodoToState(class, event, def) ==
    IF class = "TodoListBloc" /\ ListEventType(event) = "RemoveTodo"
    THEN Append(def, event)
    ELSE def

\* One step of the mapEventToState generator of the Bloc's class: it yields
\* a state, calls the service, or is done.
Step(class, event, pc, state, svc, saved) ==
    IF class = "TodoBloc"
    THEN TodoBloc_mapEventToState(event, pc, svc, saved)
    ELSE IF class = "TodoListBloc"
    THEN TodoListBloc_mapEventToState(event, pc, svc, saved)
    ELSE LET r == IF class = "CounterBloc"
                  THEN CounterBloc_mapEventToState(event, pc, state)
                  ELSE mapEventToState(event, pc, state)
         IN  [kind |-> IF r.done THEN "done" ELSE "yield", value |-> r.value,
              service |-> svc, local |-> saved]

\* Mutant: a closed Bloc still queues the event.
BlocAdd_Always(q, phase, event) == Append(q, event)

\* Bloc.add(event): the new queue.
BlocAdd(q, phase, event) == IF phase = "open" THEN Append(q, event) ELSE q

\* Mutant: a subscription taken while the Bloc is closing is still served.
BlocListen_WhileClosing(obs, phase, id) ==
    IF phase = "closed" THEN obs ELSE Append(obs, id)

\* Bloc.listen(callback): the new subscriptions, the new one being id.  A
\* callback registered after close() is never served.
BlocListen(obs, phase, id) == IF phase = "open" THEN Append(obs, id) ELSE obs

\* Subscription.unsubscribe()
Unsubscribe(obs, id) == SelectSeq(obs, LAMBDA s : s # id)

\* Mutant: close() on a Bloc that is not open opens it again.
BlocClosePhase_Toggle(phase, run) ==
    IF phase = "open"
    THEN (IF run = NoGen THEN "closed" ELSE "closing")
    ELSE "open"

\* Bloc.close(): the new phase.
BlocClosePhase(phase, run) ==
    IF phase = "open"
    THEN (IF run = NoGen THEN "closed" ELSE "closing")
    ELSE phase

\* Bloc.close(): the subscriptions left.
BlocCloseObservers(obs, phase, run) ==
    IF BlocClosePhase(phase, run) = "closed" THEN << >> ELSE obs

Add(event) ==
    /\ hasBloc
    /\ added < MaxEvents
    /\ added' = added + 1
    /\ queue' = BlocAdd(queue, blocPhase, event)
    /\ op' = Op("add", event)
    /\ calls' = << >>
    /\ UNCHANGED << deferred, blocClass, blocState, blocPhase, running, observers,
                    service, savedTodo, history >>
    /\ UNCHANGED compVars
    /\ UNCHANGED navVars

BlocAddEvent == \E event \in Events : Add(event)

\* Mutant: the Bloc takes the event added last.
BlocStart_Lifo ==
    /\ running = NoGen
    /\ queue # << >>
    /\ blocPhase = "open"
    /\ running' = [event |-> queue[Len(queue)], pc |-> 0]
    /\ queue' = SubSeq(queue, 1, Len(queue) - 1)
    /\ savedTodo' = NullRef
    /\ history' = [history EXCEPT !.from = blocState, !.mark = Len(history.emitted)]
    /\ op' = Op("start", queue[Len(queue)])
    /\ calls' = << >>
    /\ UNCHANGED << deferred, blocClass, blocState, blocPhase, observers, added, service >>
    /\ UNCHANGED compVars
    /\ UNCHANGED navVars

\* The Bloc takes the next event and starts its reduction.
BlocStart ==
    /\ running = NoGen
    /\ queue # << >>
    /\ blocPhase = "open"
    /\ running' = [event |-> Head(queue), pc |-> 0]
    /\ queue' = Tail(queue)
    /\ savedTodo' = NullRef
    /\ history' = [history EXCEPT !.from = blocState, !.mark = Len(history.emitted)]
    /\ op' = Op("start", Head(queue))
    /\ calls' = << >>
    /\ UNCHANGED << deferred, blocClass, blocState, blocPhase, observers, added, service >>
    /\ UNCHANGED compVars
    /\ UNCHANGED navVars

\* Mutant: the callback calls the listen hook and requests no update.
listenCallback_NoUpdate(pr, state, current) ==
    << Call("listen", RenderData(pr, state)) >>

\* Mutant: the update the callback requests reads null for the Bloc's state.
listenCallback_RenderNoState(pr, state, current) ==
    << Call("listen", RenderData(pr, state)) >> \o requestUpdate(pr, NullRef)

\* Mutant: the callback requests the update before it calls the listen hook.
listenCallback_UpdateFirst(pr, state, current) ==
    requestUpdate(pr, current) \o << Call("listen", RenderData(pr, state)) >>

\* The callback connectedCallback gives to Bloc.listen, called with state
\* while the Bloc's state reads current.
listenCallback(pr, state, current) ==
    << Call("listen", RenderData(pr, state)) >> \o requestUpdate(pr, current)

\* The subscription waitForBlocUpdate takes; the component's are 1, 2, ...
TestListener == 0

\* The callback waitForBlocUpdate gives to Bloc.listen: it ends its own
\* subscription and resolves the promise with the state.
waitForBlocUpdateCallback(state) == << Call("resolve", state) >>

\* Mutant: the callbacks are called in the reverse of subscription order.
RECURSIVE Broadcast_Reverse(_, _, _, _)
Broadcast_Reverse(obs, pr, state, current) ==
    IF obs = << >>
    THEN << >>
    ELSE Broadcast_Reverse(Tail(obs), pr, state, current)
           \o (IF Head(obs) = TestListener
               THEN waitForBlocUpdateCallback(state)
               ELSE listenCallback(pr, state, current))

\* The calls of one emission: every subscription's callback, in order.
RECURSIVE Broadcast(_, _, _, _)
Broadcast(obs, pr, state, current) ==
    IF obs = << >>
    THEN << >>
    ELSE (IF Head(obs) = TestListener
          THEN waitForBlocUpdateCallback(state)
          ELSE listenCallback(pr, state, current))
           \o Broadcast(Tail(obs), pr, state, current)

\* The reduction in flight yields a state.
BlocYield ==
    /\ running # NoGen
    /\ LET r == Step(blocClass, running.event, running.pc, blocState,
                     service, savedTodo)
       IN  /\ r.kind = "yield"
           /\ blocState' = r.value
           /\ running' = [running EXCEPT !.pc = @ + 1]
           /\ calls' = Broadcast(observers, props, r.value, r.value)
           /\ history' = [history EXCEPT !.emitted =
                             Append(@, [event |-> running.event, state |-> r.value])]
           /\ op' = Op("emit", r.value)
    /\ observers' = Unsubscribe(observers, TestListener)
    /\ rendered' = LastRendered(calls', rendered)
    /\ UNCHANGED << deferred, blocClass, blocPhase, queue, added, service, savedTodo >>
    /\ UNCHANGED << props, hasBloc, subscription, isConnected, mounts >>
    /\ UNCHANGED navVars

\* The test waits for the next state of the mounted component's Bloc.
WaitForBlocUpdate ==
    /\ hasBloc
    /\ isConnected
    /\ \A i \in DOMAIN observers : observers[i] # TestListener
    /\ observers' = BlocListen(observers, blocPhase, TestListener)
    /\ op' = Op("waitForBlocUpdate", EmptyObject)
    /\ calls' = << >>
    /\ UNCHANGED << deferred, blocClass, blocState, blocPhase, queue, running, added,
                    service, savedTodo, history >>
    /\ UNCHANGED compVars
    /\ UNCHANGED navVars

\* The reduction in flight resumes, calls the service and awaits the result.
BlocCall ==
    /\ running # NoGen
    /\ LET r == Step(blocClass, running.event, running.pc, blocState,
                     service, savedTodo)
       IN  /\ r.kind = "call"
           /\ service' = r.service
           /\ savedTodo' = r.local
    /\ deferred' = mapRemoveTodoToState(blocClass, running.event, deferred)
    /\ running' = [running EXCEPT !.pc = @ + 1]
    /\ op' = Op("call", running.event)
    /\ calls' = << >>
    /\ UNCHANGED << blocClass, blocState, blocPhase, queue, observers, added,
                    history >>
    /\ UNCHANGED compVars
    /\ UNCHANGED navVars

\* _mapRemoveTodoToState resumes after removeTodo: this.add(new LoadTodoList()).
DeferredAdd ==
    /\ deferred # << >>
    /\ deferred' = Tail(deferred)
    /\ queue' = BlocAdd(queue, blocPhase, ReloadOf(Head(deferred)))
    /\ op' = Op("add", ReloadOf(Head(deferred)))
    /\ calls' = << >>
    /\ UNCHANGED << blocClass, blocState, blocPhase, running, observers, added,
                    service, savedTodo, history >>
    /\ UNCHANGED compVars
    /\ UNCHANGED navVars

\* The reduction in flight completes.
BlocComplete ==
    /\ running # NoGen
    /\ Step(blocClass, running.event, running.pc, blocState,
            service, savedTodo).kind = "done"
    /\ running' = NoGen
    /\ blocPhase' = IF blocPhase = "closing" THEN "closed" ELSE blocPhase
    /\ observers' = IF blocPhase = "closing" THEN << >> ELSE observers
    /\ op' = Op("complete", running.event)
    /\ calls' = << >>
    /\ UNCHANGED << deferred, blocClass, blocState, queue, added, service, savedTodo,
                    history >>
    /\ UNCHANGED compVars
    /\ UNCHANGED navVars

-----------------------------------------------------------------------------
(* BaseComponent: the lifecycle callbacks.                                 *)

\* connectedCallback: the new #subscription, id being the next Subscription.
connectedSubscription(has, id) == IF has THEN id ELSE 0

\* Mutant: the subscription is served whatever the Bloc's phase.
connectedObservers_Always(obs, has, phase, id) ==
    IF has THEN Append(obs, id) ELSE obs

\* connectedCallback: the Bloc's subscriptions afterwards.
connectedObservers(obs, has, phase, id) ==
    IF has THEN BlocListen(obs, phase, id) ELSE obs

\* Bloc.listen(callback): the calls made to the new callback while
\* subscribing.  Past states are not replayed.
BlocListenCalls(pr, st) == << >>

\* Mutant: with a Bloc the first render is left to the subscription.
connectedCalls_BlocOnly(pr, st, has) ==
    IF has THEN BlocListenCalls(pr, st) ELSE requestUpdate(pr, Undefined)

\* connectedCallback: the calls it makes, st being the Bloc's state.
connectedCalls(pr, st, has) ==
    (IF has THEN BlocListenCalls(pr, st) ELSE << >>)
    \o requestUpdate(pr, BlocStateOf(has, st))

connectedSteps ==
    /\ mounts' = mounts + 1
    /\ subscription' = connectedSubscription(hasBloc, mounts + 1)
    /\ observers' = connectedObservers(observers, hasBloc, blocPhase, mounts + 1)
    /\ calls' = connectedCalls(props, blocState, hasBloc)
    /\ rendered' = LastRendered(calls', rendered)
    /\ history' = [history EXCEPT !.late = IF hasBloc /\ blocPhase # "open"
                                           THEN {mounts + 1} ELSE {}]
    /\ UNCHANGED << props, hasBloc >>
    /\ UNCHANGED << deferred, blocClass, blocState, blocPhase, running, added,
                    service, savedTodo >>
    /\ UNCHANGED navVars

\* BaseComponent.connectedCallback: it adds no event to the Bloc.
connectedCallback ==
    /\ connectedSteps
    /\ UNCHANGED queue

\* TodoListScreen.connectedCallback: super.connectedCallback() and then
\* this.bloc?.add(new LoadTodoList()), the event of the n-th mount
\* carrying n primes.
TodoListScreen_connectedCallback ==
    /\ connectedSteps
    /\ queue' = BlocAdd(queue, blocPhase, "LoadTodoList" \o Primes(mounts + 1))

\* The to-do list screen is added to the document.
TodoListMount ==
    /\ ~isConnected
    /\ mounts < MaxMounts
    /\ isConnected' = TRUE
    /\ op' = Op("mount", EmptyObject)
    /\ TodoListScreen_connectedCallback

\* TodoListScreen._doRemove: the dialog of the rendered list is confirmed for
\* one of the to-dos.
DoRemove ==
    /\ isConnected
    /\ rendered # NoData
    /\ rendered.state.type = "TodoListLoaded"
    /\ \E item \in Items : Add(RemoveTodoText(item) \o Primes(added + 1))

\* The component is added to the document.
Mount ==
    /\ ~isConnected
    /\ mounts < MaxMounts
    /\ isConnected' = TRUE
    /\ op' = Op("mount", EmptyObject)
    /\ connectedCallback

\* Mutant: the subscription is left in place.
disconnectedUnsubscribe_Skip(obs, sub) == obs

\* Mutant: the subscription of the mount before is the one ended.
disconnectedUnsubscribe_Previous(obs, sub) ==
    IF sub # 0 THEN Unsubscribe(obs, sub - 1) ELSE obs

\* disconnectedCallback: the Bloc's subscriptions after this.#subscription?.unsubscribe().
disconnectedUnsubscribe(obs, sub) == IF sub # 0 THEN Unsubscribe(obs, sub) ELSE obs

\* Mutant: unsubscribe is called whether or not there is a subscription.
disconnectedCalls_Unguarded(has, sub) ==
    << Call("unsubscribe", EmptyObject) >>
    \o (IF has THEN << Call("close", EmptyObject) >> ELSE << >>)

\* Mutant: the Bloc is not closed.
disconnectedCalls_NoClose(has, sub) ==
    IF sub # 0 THEN << Call("unsubscribe", EmptyObject) >> ELSE << >>

\* disconnectedCallback: the calls it makes.
disconnectedCalls(has, sub) ==
    (IF sub # 0 THEN << Call("unsubscribe", EmptyObject) >> ELSE << >>)
    \o (IF has THEN << Call("close", EmptyObject) >> ELSE << >>)

disconnectedCallback ==
    /\ LET obs == disconnectedUnsubscribe(observers, subscription)
           closes == Len(CallsOf(disconnectedCalls(hasBloc, subscription), "close"))
       IN  /\ blocPhase' = IF closes > 0
                           THEN BlocClosePhase(blocPhase, running) ELSE blocPhase
           /\ observers' = IF closes > 0
                           THEN BlocCloseObservers(obs, blocPhase, running) ELSE obs
           /\ queue' = IF closes > 0 THEN << >> ELSE queue
    /\ calls' = disconnectedCalls(hasBloc, subscription)
    /\ UNCHANGED << props, hasBloc, subscription, mounts, rendered >>
    /\ history' = [history EXCEPT !.late = {}]
    /\ UNCHANGED << deferred, blocClass, blocState, running, added, service, savedTodo >>
    /\ UNCHANGED navVars

\* The component is removed from the document.
Unmount ==
    /\ isConnected
    /\ isConnected' = FALSE
    /\ op' = Op("unmount", EmptyObject)
    /\ disconnectedCallback

\* disconnectedCallback called on a component that is not in the document.
Disconnected ==
    /\ ~isConnected
    /\ isConnected' = isConnected
    /\ op' = Op("disconnected", EmptyObject)
    /\ disconnectedCallback

-----------------------------------------------------------------------------
(* Navigation: navigate() stashes params in window under the path, and     *)
(* onBeforeEnter reads them back for the location the Router resolved.     *)

Null == "null"

\* The paths navigated to.
Paths == {"/x", "/users/42?status=active", "/users/42?user=7"}

\* The params passed to navigate().
NavParams ==
    { EmptyObject,
      [user |-> Null],
      [user |-> "UserObj", status |-> "StatusObj"] }

\* The keys the component declares a setter for: set key(v) { this.setProps({ key: v }) }
SetterKeys == {"user", "status"}

Entry(k, v) == [key |-> k, value |-> v]

\* The Router's location for a path: pathname, search, the route's path
\* parameters and the query's search parameters, both as entries in order.
Resolve(path) ==
    CASE path = "/x" ->
           [pathname |-> "/x", search |-> "",
            params |-> << >>, searchParams |-> << >>]
      [] path = "/users/42?status=active" ->
           [pathname |-> "/users/42", search |-> "?status=active",
            params |-> << Entry("user", "42") >>,
            searchParams |-> << Entry("status", "active") >>]
      [] path = "/users/42?user=7" ->
           [pathname |-> "/users/42", search |-> "?user=7",
            params |-> << Entry("user", "42") >>,
            searchParams |-> << Entry("user", "7") >>]

\* The keys of a sequence of entries.
EntryKeys(es) == {es[i].key : i \in DOMAIN es}

\* Object.fromEntries: the last entry of a key gives its value.
FromEntries(es) ==
    [k \in EntryKeys(es) |->
        es[CHOOSE i \in DOMAIN es :
              es[i].key = k /\ \A j \in DOMAIN es : es[j].key = k => j <= i].value]

\* The keys of { ...a, ...b } in property order, a and b given as entries:
\* a's keys first, then the keys only b has.
RECURSIVE KeyOrder(_, _)
KeyOrder(es, seen) ==
    IF es = << >>
    THEN << >>
    ELSE IF Head(es).key \in seen
         THEN KeyOrder(Tail(es), seen)
         ELSE << Head(es).key >> \o KeyOrder(Tail(es), seen \cup {Head(es).key})

\* window[path] = params when params has a key.
\* Mutant: params already stashed under the path are kept.
navigateWindow_KeepFirst(win, path, params) ==
    IF Cardinality(DOMAIN params) > 0 /\ path \notin DOMAIN win
    THEN [k \in (DOMAIN win) \cup {path} |-> IF k = path THEN params ELSE win[k]]
    ELSE win

navigateWindow(win, path, params) ==
    IF Cardinality(DOMAIN params) > 0
    THEN [k \in (DOMAIN win) \cup {path} |-> IF k = path THEN params ELSE win[k]]
    ELSE win

\* Mutant: Router.go is called before the params are stashed.
navigateCalls_GoFirst(path, params) ==
    << Call("Router.go", path) >>
    \o (IF Cardinality(DOMAIN params) > 0
        THEN << Call("window.set", path) >> ELSE << >>)

\* navigate: the store write and the call it makes, in order.
navigateCalls(path, params) ==
    (IF Cardinality(DOMAIN params) > 0
     THEN << Call("window.set", path) >> ELSE << >>)
    \o << Call("Router.go", path) >>

navigate(path, params) ==
    /\ window' = navigateWindow(window, path, params)
    /\ pending' = path
    /\ delivered' = IF Cardinality(DOMAIN params) > 0
                    THEN [k \in (DOMAIN delivered) \ {path} |-> delivered[k]]
                    ELSE delivered
    /\ replaced' = IF Cardinality(DOMAIN params) = 0
                       \/ (path \in DOMAIN window /\ window[path] = params)
                   THEN replaced
                   ELSE IF path \in DOMAIN window
                        THEN [path |-> path, params |-> window[path]]
                        ELSE NoReplaced
    /\ UNCHANGED heldBag
    /\ calls' = navigateCalls(path, params)
    /\ op' = Op("navigate", [path |-> path, params |-> params])
    /\ UNCHANGED compVars
    /\ UNCHANGED blocVars

Navigate == \E path \in Paths, params \in NavParams : navigate(path, params)

\* Router.go(path) called directly: nothing is stashed.
RouterGo ==
    \E path \in Paths :
        /\ pending' = path
        /\ calls' = << >>
        /\ op' = Op("Router.go", path)
        /\ UNCHANGED << window, delivered, replaced, heldBag >>
        /\ UNCHANGED compVars
        /\ UNCHANGED blocVars

\* Mutant: the stashed value is looked up under every key of the store.
passedValue_AnyPath(win, passedParamsLocation, key) ==
    IF \E p \in DOMAIN win : key \in DOMAIN win[p]
    THEN win[CHOOSE p \in DOMAIN win : key \in DOMAIN win[p]][key]
    ELSE Undefined

\* passedParams?.[key]
passedValue(win, passedParamsLocation, key) ==
    IF passedParamsLocation \in DOMAIN win /\ key \in DOMAIN win[passedParamsLocation]
    THEN win[passedParamsLocation][key]
    ELSE Undefined

\* Mutant: b ?? a, the URL's value before the stashed one.
Coalesce_UrlFirst(a, b) == IF b = Undefined \/ b = Null THEN a ELSE b

\* a ?? b
Coalesce(a, b) == IF a = Undefined \/ a = Null THEN b ELSE a

\* Mutant: the path parameters are spread over the query parameters.
combinedParams_PathFirst(location) ==
    Spread(FromEntries(location.searchParams), FromEntries(location.params))

\* { ...location.params, ...Object.fromEntries(location.searchParams) }
combinedParams(location) ==
    Spread(FromEntries(location.params), FromEntries(location.searchParams))

\* Mutant: the whole store is emptied.
deleteWindow_Clear(win, passedParamsLocation) == EmptyObject

\* Mutant: the entry is left in the store.
deleteWindow_Keep(win, passedParamsLocation) == win

\* delete window[passedParamsLocation]
deleteWindow(win, passedParamsLocation) ==
    [k \in (DOMAIN win) \ {passedParamsLocation} |-> win[k]]

\* Mutant: the stashed params are read after the entry has been deleted.
assignedValue_AfterDelete(win, location, key) ==
    Coalesce(passedValue(deleteWindow(win, location.pathname \o location.search),
                         location.pathname \o location.search, key),
             combinedParams(location)[key])

\* The value onBeforeEnter assigns to this[key].
assignedValue(win, location, key) ==
    Coalesce(passedValue(win, location.pathname \o location.search, key),
             combinedParams(location)[key])

\* this[key] = value: the setter's setProps({ key: value }), the new #props.
assignBag(pr, key, value) ==
    IF key \in SetterKeys THEN setPropsBag(pr, (key :> value)) ELSE pr

\* this[key] = value: the calls made.
assignCalls(pr, key, value, connected, st) ==
    << Call("set", Entry(key, value)) >>
    \o (IF key \in SetterKeys
        THEN setPropsCalls(pr, (key :> value), connected, st)
        ELSE << >>)

\* The loop of onBeforeEnter over the combined params: the new #props.
RECURSIVE assignAllBag(_, _, _, _)
assignAllBag(pr, keys, win, location) ==
    IF keys = << >>
    THEN pr
    ELSE assignAllBag(
             assignBag(pr, Head(keys), assignedValue(win, location, Head(keys))),
             Tail(keys), win, location)

\* The loop of onBeforeEnter over the combined params: the calls made.
RECURSIVE assignAllCalls(_, _, _, _, _, _)
assignAllCalls(pr, keys, win, location, connected, st) ==
    IF keys = << >>
    THEN << >>
    ELSE assignCalls(pr, Head(keys), assignedValue(win, location, Head(keys)),
                     connected, st)
         \o assignAllCalls(
                assignBag(pr, Head(keys), assignedValue(win, location, Head(keys))),
                Tail(keys), win, location, connected, st)

onBeforeEnter(location) ==
    LET keys == KeyOrder(location.params \o location.searchParams, {})
    IN  /\ window' = deleteWindow(window, location.pathname \o location.search)
        /\ props' = assignAllBag(props, keys, window, location)
        /\ calls' = << Call("window.delete", location.pathname \o location.search) >>
                     \o assignAllCalls(props, keys, window, location, isConnected,
                                       BlocStateOf(hasBloc, blocState))
        /\ delivered' = IF location.pathname \o location.search \in DOMAIN window
                        THEN [k \in (DOMAIN delivered)
                                      \cup {location.pathname \o location.search} |->
                                 IF k = location.pathname \o location.search
                                 THEN window[k] ELSE delivered[k]]
                        ELSE delivered
        /\ UNCHANGED << replaced, heldBag >>
        /\ rendered' = LastRendered(calls', rendered)
        /\ UNCHANGED << hasBloc, subscription, isConnected, mounts >>
        /\ UNCHANGED blocVars

\* The Router resolves the pending path and enters the component.
RouteEnter ==
    /\ pending # NoPath
    /\ pending' = NoPath
    /\ op' = Op("onBeforeEnter", pending)
    /\ onBeforeEnter(Resolve(pending))

-----------------------------------------------------------------------------

Init ==
    /\ props = EmptyObject
    /\ hasBloc \in BOOLEAN
    /\ subscription = 0
    /\ isConnected = FALSE
    /\ mounts = 0
    /\ blocClass = "TestBloc"
    /\ blocState = "initial"
    /\ blocPhase = "open"
    /\ queue = << >>
    /\ running = NoGen
    /\ observers = << >>
    /\ added = 0
    /\ service = NoService
    /\ savedTodo = NullRef
    /\ deferred = << >>
    /\ history = NoHistory("initial")
    /\ window = EmptyObject
    /\ pending = NoPath
    /\ delivered = EmptyObject
    /\ replaced = NoReplaced
    /\ heldBag = NoBag
    /\ op = [name |-> "constructor", arg |-> EmptyObject, tick |-> FALSE]
    /\ calls = << >>
    /\ rendered = NoData

Next ==
    \/ SetProps
    \/ Mount
    \/ Unmount
    \/ Disconnected
    \/ BlocAddEvent
    \/ BlocStart
    \/ BlocYield
    \/ BlocComplete

Spec == Init /\ [][Next]_vars

\* The component of the test suite with the test's own listener.
ListenerNext ==
    \/ Mount
    \/ Unmount
    \/ BlocAddEvent
    \/ BlocStart
    \/ BlocYield
    \/ BlocComplete
    \/ WaitForBlocUpdate

\* The test's component is constructed with a TestBloc.
ListenerInit == Init /\ hasBloc

ListenerSpec == ListenerInit /\ [][ListenerNext]_vars

\* requestUpdate on every property bag, with and without a shadow root.
RenderNext ==
    \/ SetProps
    \/ RequestUpdateCall

RenderSpec == Init /\ [][RenderNext]_vars

\* setProps with a caller that holds the bag it read before the call.
BagNext ==
    \/ SetPropsObserved
    \/ Mount
    \/ Unmount

BagSpec == Init /\ [][BagNext]_vars

\* #shallowEquals on every pair of bags.
EqualsNext == ShallowEqualsCall

EqualsSpec == Init /\ [][EqualsNext]_vars

\* A component bound to a CounterBloc.
CounterInit ==
    /\ props = EmptyObject
    /\ hasBloc = TRUE
    /\ subscription = 0
    /\ isConnected = FALSE
    /\ mounts = 0
    /\ blocClass = "CounterBloc"
    /\ blocState = CounterInitialized
    /\ blocPhase = "open"
    /\ queue = << >>
    /\ running = NoGen
    /\ observers = << >>
    /\ added = 0
    /\ service = NoService
    /\ savedTodo = NullRef
    /\ deferred = << >>
    /\ history = NoHistory(CounterInitialized)
    /\ window = EmptyObject
    /\ pending = NoPath
    /\ delivered = EmptyObject
    /\ replaced = NoReplaced
    /\ heldBag = NoBag
    /\ op = [name |-> "constructor", arg |-> EmptyObject, tick |-> FALSE]
    /\ calls = << >>
    /\ rendered = NoData

CounterAddEvent == \E event \in CounterEvents : Add(event)

CounterNext ==
    \/ Mount
    \/ Unmount
    \/ CounterAddEvent
    \/ BlocStart
    \/ BlocYield
    \/ BlocComplete

CounterSpec == CounterInit /\ [][CounterNext]_vars

\* A component bound to a TodoBloc over a MockTodoService.
TodoInit ==
    /\ props = EmptyObject
    /\ hasBloc = TRUE
    /\ subscription = 0
    /\ isConnected = FALSE
    /\ mounts = 0
    /\ blocClass = "TodoBloc"
    /\ blocState = TodoEdited([contents |-> ""])
    /\ blocPhase = "open"
    /\ queue = << >>
    /\ running = NoGen
    /\ observers = << >>
    /\ added = 0
    /\ service = NoService
    /\ savedTodo = NullRef
    /\ deferred = << >>
    /\ history = NoHistory(TodoEdited([contents |-> ""]))
    /\ window = EmptyObject
    /\ pending = NoPath
    /\ delivered = EmptyObject
    /\ replaced = NoReplaced
    /\ heldBag = NoBag
    /\ op = [name |-> "constructor", arg |-> EmptyObject, tick |-> FALSE]
    /\ calls = << >>
    /\ rendered = NoData

TodoAddEvent == \E event \in TodoEvents : Add(event \o Primes(added + 1))

TodoNext ==
    \/ Mount
    \/ Unmount
    \/ TodoAddEvent
    \/ BlocStart
    \/ BlocYield
    \/ BlocCall
    \/ BlocComplete

TodoSpec == TodoInit /\ [][TodoNext]_vars

\* A component bound to a TodoListBloc, the service holding the two to-dos.
TodoListInit ==
    /\ props = EmptyObject
    /\ hasBloc = TRUE
    /\ subscription = 0
    /\ isConnected = FALSE
    /\ mounts = 0
    /\ blocClass = "TodoListBloc"
    /\ blocState = TodoListLoading
    /\ blocPhase = "open"
    /\ queue = << >>
    /\ running = NoGen
    /\ observers = << >>
    /\ added = 0
    /\ service = addTodo(addTodo(NoService, [contents |-> "a"]).service,
                         [contents |-> "a"]).service
    /\ savedTodo = NullRef
    /\ deferred = << >>
    /\ history = NoHistory(TodoListLoading)
    /\ window = EmptyObject
    /\ pending = NoPath
    /\ delivered = EmptyObject
    /\ replaced = NoReplaced
    /\ heldBag = NoBag
    /\ op = [name |-> "constructor", arg |-> EmptyObject, tick |-> FALSE]
    /\ calls = << >>
    /\ rendered = NoData

TodoListNext ==
    \/ TodoListMount
    \/ Unmount
    \/ DoRemove
    \/ BlocStart
    \/ BlocYield
    \/ BlocCall
    \/ BlocComplete
    \/ DeferredAdd

TodoListSpec == TodoListInit /\ [][TodoListNext]_vars

\* The scheduler runs every step that is ready: the Bloc takes queued
\* events, a suspended reduction resumes, an awaited promise is continued.
TodoListFairSpec ==
    /\ TodoListSpec
    /\ WF_vars(BlocStart)
    /\ WF_vars(BlocYield)
    /\ WF_vars(BlocCall)
    /\ WF_vars(BlocComplete)
    /\ WF_vars(DeferredAdd)

\* Navigation and route entry on a component not yet in the document.
NavNext ==
    \/ Navigate
    \/ RouterGo
    \/ RouteEnter

NavSpec == Init /\ [][NavNext]_vars

-----------------------------------------------------------------------------
(* Properties of the property-diff and render lifecycle.                   *)

Renders(cs) == Len(CallsOf(cs, "render"))

\* Two bags differ under shallow equality: the key sets differ, or some
\* key's values are not strictly equal.
Differ(a, b) ==
    \/ DOMAIN a # DOMAIN b
    \/ \E k \in DOMAIN a : a[k] # b[k] \/ a[k] = NaN

\* "initial" followed by n times "next".
RECURSIVE InitialNext(_)
InitialNext(n) == IF n = 0 THEN "initial" ELSE InitialNext(n - 1) \o "next"

\* C1: two consecutive setProps(P) calls with the same P and no operation
\* in between trigger at most one render in total: the second call leaves
\* the property bag unchanged and triggers no render.
C1_SetPropsTwice ==
    [][ (op.name = "setProps" /\ op'.name = "setProps" /\ op'.arg = op.arg)
          => /\ Renders(calls) + Renders(calls') <= 1
             /\ props' = props
             /\ Renders(calls') = 0 ]_vars

\* C2: the merge is additive.  No operation removes a key from the bag, and
\* setProps(P) leaves the value of every existing key not in P unchanged
\* while every key of P holds P's value afterwards.
C2_MergeAdditive ==
    [][ /\ DOMAIN props \subseteq DOMAIN props'
        /\ op'.name = "setProps" =>
             /\ \A k \in (DOMAIN props) \ (DOMAIN op'.arg) : props'[k] = props[k]
             /\ \A k \in DOMAIN op'.arg :
                   k \in DOMAIN props' /\ props'[k] = op'.arg[k] ]_vars

C2_Witness ==
    /\ op.name = "setProps"
    /\ op.arg # EmptyObject
    /\ \E k \in DOMAIN props : k \notin DOMAIN op.arg
    /\ \E k \in DOMAIN op.arg : props[k] = "Alice"

\* C3: setProps(P) triggers exactly one render, within the call, if and only
\* if the merged bag differs from the current bag under shallow equality and
\* the component is connected; that render is given the merged bag.  If the
\* bags differ and the component is not connected the bag is replaced and
\* nothing is rendered; if they are equal neither the bag nor the rendered
\* output changes.
C3_SetPropsRenders ==
    [][ op'.name = "setProps" =>
          LET merged == Spread(props, op'.arg)
              differ == Differ(props, merged)
          IN  /\ Renders(calls') = (IF differ /\ isConnected THEN 1 ELSE 0)
              /\ (differ /\ isConnected) =>
                    /\ props' = merged
                    /\ CallsOf(calls', "render")[1].data
                         = RenderData(merged, BlocStateOf(hasBloc, blocState))
                    /\ rendered' = RenderData(merged, BlocStateOf(hasBloc, blocState))
              /\ (differ /\ ~isConnected) =>
                    props' = merged /\ rendered' = rendered
              /\ ~differ => props' = props /\ rendered' = rendered ]_vars

C3_Witness ==
    /\ op.name = "setProps"
    /\ isConnected
    /\ Renders(calls) = 1
    /\ DOMAIN props = Keys
    /\ DOMAIN op.arg # Keys

\* C4: every mount triggers exactly one render, with or without a Bloc:
\* subscribing does not replay the current state, so the listen hook is not
\* called.  The render is given the current props plus the Bloc's current
\* state, or undefined when there is no Bloc.
C4_MountRendersOnce ==
    [][ op'.name = "mount" =>
          /\ CallsOf(calls', "render")
               = << Call("render",
                         RenderData(props, IF hasBloc THEN blocState ELSE Undefined)) >>
          /\ CallsOf(calls', "listen") = << >>
          /\ rendered' = RenderData(props, IF hasBloc THEN blocState ELSE Undefined)
          /\ props' = props ]_vars

C4_Witness ==
    /\ op.name = "mount"
    /\ hasBloc
    /\ blocState = "initialnext"
    /\ props # EmptyObject
    /\ Renders(calls) = 1

\* C5: for a component with no Bloc, setProps calls before the first mount
\* render nothing, and the first mount renders exactly once, with every
\* property set before the mount in the render's data.
C5_PreMountProps ==
    ~hasBloc =>
        /\ mounts = 0 => rendered = NoData /\ Renders(calls) = 0
        /\ (mounts = 1 /\ op.name = "mount") =>
              /\ Renders(calls) = 1
              /\ \A k \in DOMAIN props :
                    /\ k \in DOMAIN CallsOf(calls, "render")[1].data
                    /\ CallsOf(calls, "render")[1].data[k] = props[k]
              /\ CallsOf(calls, "render")[1].data["state"] = Undefined
              /\ rendered = CallsOf(calls, "render")[1].data

C5_Witness ==
    /\ ~hasBloc
    /\ mounts = 1
    /\ op.name = "mount"
    /\ "name" \in DOMAIN props
    /\ props["name"] = "Alice"
    /\ rendered = [name |-> "Alice", state |-> Undefined]

\* Every added event has been reduced and the Bloc is still open.
Settled == blocPhase = "open" /\ queue = << >> /\ running = NoGen

HookCalls(cs) == SelectSeq(cs, LAMBDA x : x.call \in {"listen", "render"})

\* C7, as stated: while a component bound to a Bloc is connected, every
\* state emission calls the listen hook exactly once, with the props of that
\* moment merged with the emitted state, and then renders exactly once: the
\* hook call comes before the render.
C7_EmissionListenThenRender ==
    [][ (op'.name = "emit" /\ hasBloc /\ isConnected) =>
          HookCalls(calls')
            = << Call("listen", RenderData(props, op'.arg)),
                 Call("render", RenderData(props, blocState')) >> ]_vars

\* C7, amended: while a component bound to a Bloc is connected and the Bloc
\* was open when it was connected, every state emission calls the listen
\* hook exactly once, with the props of that moment merged with the emitted
\* state, and then renders exactly once: the hook call comes before the
\* render.  A component connected after the Bloc's close() gets no call for
\* the states the reduction in flight still emits.
C7_ServedEmissionListenThenRender ==
    [][ (op'.name = "emit" /\ hasBloc /\ isConnected) =>
          HookCalls(calls')
            = IF history.late = {}
              THEN << Call("listen", RenderData(props, op'.arg)),
                      Call("render", RenderData(props, blocState')) >>
              ELSE << >> ]_vars

C7_Witness ==
    /\ op.name = "emit"
    /\ hasBloc /\ isConnected
    /\ history.late = {}
    /\ props # EmptyObject
    /\ Len(CallsOf(calls, "listen")) = 1
    /\ Renders(calls) = 1

\* C8: unmounting a connected component bound to a Bloc calls the Bloc's
\* close() exactly once during that unmount, and the Bloc is open no more.
C8_UnmountClosesOnce ==
    [][ (op'.name = "unmount" /\ hasBloc) =>
          /\ Len(CallsOf(calls', "close")) = 1
          /\ blocPhase' # "open" ]_vars

C8_Witness ==
    /\ op.name = "unmount"
    /\ hasBloc
    /\ Len(CallsOf(calls, "close")) = 1
    /\ blocPhase = "closing"

-----------------------------------------------------------------------------
(* Properties of navigation and route entry.                               *)

\* The key onBeforeEnter reads the navigation store under, for a path.
StoreKey(path) == Resolve(path).pathname \o Resolve(path).search

\* The keys a sequence of calls assigns through this[key] = value.
KeysSet(cs) == {CallsOf(cs, "set")[i].data.key : i \in DOMAIN CallsOf(cs, "set")}

Assigned(cs) == {CallsOf(cs, "set")[i].data : i \in DOMAIN CallsOf(cs, "set")}

\* C11, as stated: at route entry, every key of the URL-derived parameters
\* for which the store holds a stashed value under the current path + query
\* is assigned the stashed value, whatever the stashed value is.
C11_StashedAlwaysWins ==
    [][ (op'.name = "onBeforeEnter" /\ StoreKey(pending) \in DOMAIN window) =>
          LET stash == window[StoreKey(pending)]
              url == combinedParams(Resolve(pending))
          IN  \A k \in (DOMAIN url) \cap (DOMAIN stash) :
                  /\ Entry(k, stash[k]) \in Assigned(calls')
                  /\ props'[k] = stash[k] ]_vars

\* C11, amended: at route entry, every key of the URL-derived parameters for
\* which the store holds, under the current path + query, a stashed value
\* that is neither null nor undefined is assigned the stashed value and not
\* the URL-derived value; a stashed null or undefined is passed over and the
\* key is assigned its URL-derived value.
C11_NonNullStashWins ==
    [][ (op'.name = "onBeforeEnter" /\ StoreKey(pending) \in DOMAIN window) =>
          LET stash == window[StoreKey(pending)]
              url == combinedParams(Resolve(pending))
          IN  \A k \in (DOMAIN url) \cap (DOMAIN stash) :
                  LET v == IF stash[k] \in {Null, Undefined} THEN url[k] ELSE stash[k]
                  IN  /\ {e \in Assigned(calls') : e.key = k} = {Entry(k, v)}
                      /\ props'[k] = v ]_vars

\* A stashed object has been assigned over the values "42" and "7" the URL
\* gives the same key.
C11_Witness ==
    /\ op.name = "onBeforeEnter"
    /\ op.arg = "/users/42?user=7"
    /\ Assigned(calls) = {Entry("user", "UserObj")}
    /\ props = [user |-> "UserObj"]

\* C12: at route entry with no stashed entry for the current path + query,
\* every path-parameter key and every query-parameter key is assigned once,
\* with a value the URL gives that key, and no other property is assigned
\* or changed.
C12_UrlOnly ==
    [][ (op'.name = "onBeforeEnter" /\ StoreKey(pending) \notin DOMAIN window) =>
          LET path == FromEntries(Resolve(pending).params)
              query == FromEntries(Resolve(pending).searchParams)
              urlValues(k) == {path[j] : j \in {k} \cap DOMAIN path}
                                \cup {query[j] : j \in {k} \cap DOMAIN query}
          IN  /\ KeysSet(calls') = (DOMAIN path) \cup (DOMAIN query)
              /\ Len(CallsOf(calls', "set")) = Cardinality(KeysSet(calls'))
              /\ \A e \in Assigned(calls') :
                    e.value \in urlValues(e.key) /\ props'[e.key] = e.value
              /\ \A k \in (DOMAIN props') \ KeysSet(calls') :
                    k \in DOMAIN props /\ props'[k] = props[k] ]_vars

\* Router.go('/users/42?status=active') with nothing stashed: both keys
\* carry the URL's values.
C12_Witness ==
    /\ op.name = "onBeforeEnter"
    /\ op.arg = "/users/42?status=active"
    /\ window = EmptyObject
    /\ delivered = EmptyObject
    /\ Assigned(calls) = {Entry("user", "42"), Entry("status", "active")}
    /\ props = [user |-> "42", status |-> "active"]

\* C13, as stated: at route entry, when a path parameter and a query
\* parameter have the same key and nothing is stashed for that key, the
\* property is assigned the path parameter's value.
C13_PathParamWins ==
    [][ op'.name = "onBeforeEnter" =>
          LET path == FromEntries(Resolve(pending).params)
              query == FromEntries(Resolve(pending).searchParams)
          IN  \A k \in (DOMAIN path) \cap (DOMAIN query) :
                  passedValue(window, StoreKey(pending), k) = Undefined =>
                      /\ Entry(k, path[k]) \in Assigned(calls')
                      /\ props'[k] = path[k] ]_vars

\* C13, amended: at route entry, when a path parameter and a query parameter
\* have the same key and nothing is stashed for that key, the property is
\* assigned the query parameter's value, once (query parameters take
\* precedence over path parameters).
C13_QueryParamWins ==
    [][ op'.name = "onBeforeEnter" =>
          LET path == FromEntries(Resolve(pending).params)
              query == FromEntries(Resolve(pending).searchParams)
          IN  \A k \in (DOMAIN path) \cap (DOMAIN query) :
                  passedValue(window, StoreKey(pending), k) = Undefined =>
                      /\ {e \in Assigned(calls') : e.key = k} = {Entry(k, query[k])}
                      /\ props'[k] = query[k] ]_vars

\* Router.go('/users/42?user=7') on the route /users/:user has assigned the
\* query's "7".
C13_Witness ==
    /\ op.name = "onBeforeEnter"
    /\ op.arg = "/users/42?user=7"
    /\ Assigned(calls) = {Entry("user", "7")}
    /\ props = [user |-> "7"]

\* C14: every route entry for location L leaves the store with no entry
\* under L.pathname + L.search, whether or not one existed before; the
\* deletion is the first thing the entry does, before any property setter is
\* invoked; the entries under other keys are unchanged.
C14_EntryDeleted ==
    [][ op'.name = "onBeforeEnter" =>
          LET key == Resolve(pending).pathname \o Resolve(pending).search
          IN  /\ key \notin DOMAIN window'
              /\ DOMAIN window' = (DOMAIN window) \ {key}
              /\ \A k \in DOMAIN window' : window'[k] = window[k]
              /\ CallsOf(calls', "window.delete") = << Call("window.delete", key) >>
              /\ Head(calls') = Call("window.delete", key) ]_vars

\* A route entry has taken its own entry out of the store and assigned a
\* stashed value, and the entry stashed under another path is still there.
C14_Witness ==
    /\ op.name = "onBeforeEnter"
    /\ op.arg = "/users/42?user=7"
    /\ Assigned(calls) = {Entry("user", "UserObj")}
    /\ DOMAIN window = {"/users/42?status=active"}

\* C15: params stashed by one navigate are delivered to at most one route
\* entry: a route entry at a path + query whose stashed params an earlier
\* route entry has read, with no navigate with params to that key since,
\* assigns only URL-derived values.
C15_DeliveredOnce ==
    [][ (op'.name = "onBeforeEnter" /\ StoreKey(pending) \in DOMAIN delivered) =>
          LET path == FromEntries(Resolve(pending).params)
              query == FromEntries(Resolve(pending).searchParams)
          IN  /\ StoreKey(pending) \notin DOMAIN window
              /\ \A e \in Assigned(calls') :
                    \/ e.key \in DOMAIN path /\ e.value = path[e.key]
                    \/ e.key \in DOMAIN query /\ e.value = query[e.key] ]_vars

\* The stashed objects were delivered to an earlier route entry at this path
\* + query; this one has assigned the URL's values.
C15_Witness ==
    /\ op.name = "onBeforeEnter"
    /\ op.arg = "/users/42?status=active"
    /\ "/users/42?status=active" \in DOMAIN delivered
    /\ delivered["/users/42?status=active"] = [user |-> "UserObj", status |-> "StatusObj"]
    /\ props = [user |-> "42", status |-> "active"]

\* C16: navigate(path, params) writes window[path] = params if and only if
\* params has at least one key and leaves the store unchanged when params is
\* absent or empty; in both cases it calls Router.go(path) exactly once,
\* after the store write.
C16_NavigateStore ==
    [][ op'.name = "navigate" =>
          LET path == op'.arg.path
              params == op'.arg.params
          IN  /\ DOMAIN params # {} =>
                    /\ DOMAIN window' = (DOMAIN window) \cup {path}
                    /\ window'[path] = params
                    /\ \A k \in (DOMAIN window) \ {path} : window'[k] = window[k]
                    /\ calls' = << Call("window.set", path), Call("Router.go", path) >>
              /\ DOMAIN params = {} =>
                    /\ window' = window
                    /\ calls' = << Call("Router.go", path) >>
              /\ pending' = path ]_vars

\* navigate has stashed params under a path that had older params, and has
\* then called Router.go.
C16_Witness ==
    /\ op.name = "navigate"
    /\ op.arg.params = [user |-> "UserObj", status |-> "StatusObj"]
    /\ op.arg.path = "/users/42?user=7"
    /\ DOMAIN window = {op.arg.path, "/x"}
    /\ window[op.arg.path] = op.arg.params
    /\ calls = << Call("window.set", op.arg.path), Call("Router.go", op.arg.path) >>

-----------------------------------------------------------------------------
(* Properties of the Bloc.                                                 *)

\* The states the last reduction started has yielded so far.
Yielded == SubSeq(history.emitted, history.mark + 1, Len(history.emitted))

\* C17: once the reduction of add(E) on a Bloc in state S0 has completed,
\* the Bloc's state is the last state mapEventToState(E) yielded from S0,
\* and is S0 when it yielded none: a CounterIncrement yields S0.value + 1, a
\* CounterDecrement yields S0.value - 1 above 0, and yields nothing at 0.
C17_StateAfterReduction ==
    op.name = "complete" =>
        LET S0 == history.from
            yield(v) == [event |-> op.arg, state |-> CounterUpdated(v)]
        IN  /\ blocState = IF Yielded = << >>
                           THEN S0 ELSE Yielded[Len(Yielded)].state
            /\ op.arg = "CounterIncrement" => Yielded = << yield(S0.value + 1) >>
            /\ (op.arg = "CounterDecrement" /\ S0.value > 0) =>
                   Yielded = << yield(S0.value - 1) >>
            /\ (op.arg = "CounterDecrement" /\ S0.value = 0) =>
                   Yielded = << >> /\ blocState = S0

\* A CounterDecrement has been reduced at value 0: nothing was yielded and
\* the state is the one it started from.
C17_Witness ==
    /\ op.name = "complete"
    /\ op.arg = "CounterDecrement"
    /\ Yielded = << >>
    /\ history.from = CounterInitialized
    /\ blocState = CounterInitialized

\* C18: the events of one Bloc are reduced one at a time in the order added:
\* when E1 is added before E2, every state yielded for E1 is emitted before
\* any state yielded for E2.  The TodoBloc emits TodoSaving and then the
\* outcome for one event, then for the next, although each reduction
\* suspends on the service between its two yields.
C18_OneAtATime ==
    LET em == history.emitted
    IN  \A i \in DOMAIN em :
            /\ \A j \in DOMAIN em :
                  i < j => EventOrdinal(em[i].event) <= EventOrdinal(em[j].event)
            /\ i % 2 = 1 => em[i].state = TodoSaving(EventTodo(em[i].event))
            /\ i % 2 = 0 =>
                  /\ em[i].event = em[i - 1].event
                  /\ em[i].state.type \in {"TodoSaved", "TodoNotSaved"}

\* AddTodo and then UpdateTodo have been reduced: Saving1, Saved1, Saving2,
\* Saved2.
C18_Witness ==
    /\ Len(history.emitted) = 4
    /\ history.emitted[1] = [event |-> "AddTodo(a)'",
                             state |-> TodoSaving([contents |-> "a"])]
    /\ history.emitted[2] = [event |-> "AddTodo(a)'",
                             state |-> TodoSaved([id |-> 1, contents |-> "a"])]
    /\ history.emitted[3] = [event |-> "UpdateTodo(1,b)''",
                             state |-> TodoSaving([id |-> 1, contents |-> "b"])]
    /\ history.emitted[4] = [event |-> "UpdateTodo(1,b)''",
                             state |-> TodoSaved([id |-> 1, contents |-> "b"])]

\* C19: a callback registered with listen after the Bloc's close() is never
\* invoked: it is not among the subscriptions the Bloc serves, and a state
\* emitted while it is the component's subscription calls no listen hook.
C19_LateListenerSilent ==
    /\ \A id \in history.late : \A i \in DOMAIN observers : observers[i] # id
    /\ (op.name = "emit" /\ history.late # {}) => calls = << >>

\* The component was put back into the document while its Bloc was closing,
\* and the reduction in flight has emitted a state since: no call was made.
C19_Witness ==
    /\ op.name = "emit"
    /\ isConnected
    /\ history.late = {subscription}
    /\ blocPhase = "closing"
    /\ calls = << >>

C22_CounterNotNegative ==
    [][ /\ blocState'.value >= 0
        /\ (running # NoGen /\ running.event = "CounterDecrement"
              /\ blocState.value = 0) =>
             /\ op'.name # "emit"
             /\ op'.name = "complete" =>
                   /\ calls' = << >>
                   /\ blocState' = blocState
                   /\ rendered' = rendered ]_vars

\* A CounterDecrement has been reduced at value 0 while the component was in
\* the document: the last render is still the one of the initial state.
C22_Witness ==
    /\ op.name = "complete"
    /\ op.arg = "CounterDecrement"
    /\ isConnected
    /\ blocState.value = 0
    /\ Yielded = << >>
    /\ rendered = [state |-> CounterInitialized]

\* C23: disconnectedCallback on a component that was never connected (there
\* is no subscription) cancels nothing and still closes the Bloc if one is
\* bound; with no Bloc it makes no call and changes nothing.
C23_UnmountNeverMounted ==
    [][ (op'.name = "disconnected" /\ mounts = 0) =>
          /\ CallsOf(calls', "unsubscribe") = << >>
          /\ hasBloc =>
                /\ calls' = << Call("close", EmptyObject) >>
                /\ blocPhase' # "open"
          /\ ~hasBloc =>
                /\ calls' = << >>
                /\ compVars' = compVars
                /\ blocVars' = blocVars
                /\ navVars' = navVars ]_vars

\* disconnectedCallback has closed the Bloc of a component that was never
\* connected.
C23_Witness ==
    /\ op.name = "disconnected"
    /\ mounts = 0
    /\ subscription = 0
    /\ hasBloc
    /\ blocPhase = "closed"
    /\ calls = << Call("close", EmptyObject) >>

\* C25: the shallow equality check of setProps returns true exactly when the
\* two bags have the same key set and, for every key, values that are equal
\* under ===, NaN being equal to nothing: on every pair of bags it agrees
\* with that reference.
C25_ShallowEqualsReference ==
    op.name = "shallowEquals" =>
        LET a == op.arg.obj1
            b == op.arg.obj2
        IN  calls[1].data
              = (/\ DOMAIN a = DOMAIN b
                 /\ \A k \in DOMAIN a : a[k] = b[k] /\ a[k] # NaN /\ b[k] # NaN)

\* Bags with as many keys but not the same keys, each value undefined, have
\* been compared: they are not equal.
C25_Witness ==
    /\ op.name = "shallowEquals"
    /\ op.arg.obj1 = [name |-> Undefined]
    /\ op.arg.obj2 = [age |-> Undefined]
    /\ calls = << Call("return", FALSE) >>

\* C28: over any number of connect/disconnect cycles of a component bound
\* to a Bloc, every disconnectedCallback runs to its end: it unsubscribes
\* and closes, the subscription is served no more and the Bloc is not open.
\* When the Bloc was closed before, unsubscribing the subscription already
\* released and closing again change nothing in the Bloc.
C28_RepeatedUnmount ==
    [][ (op'.name = "unmount" /\ hasBloc) =>
          /\ calls' = << Call("unsubscribe", EmptyObject),
                         Call("close", EmptyObject) >>
          /\ blocPhase' # "open"
          /\ \A i \in DOMAIN observers' : observers'[i] # subscription
          /\ blocPhase # "open" =>
                /\ blocPhase' = blocPhase
                /\ blocState' = blocState
                /\ queue' = queue
                /\ running' = running
                /\ observers' = observers ]_vars

\* The component has been removed from the document a second time: its Bloc
\* was closed by the first removal.
C28_Witness ==
    /\ op.name = "unmount"
    /\ hasBloc
    /\ mounts = 2
    /\ subscription = 2
    /\ blocPhase = "closed"
    /\ calls = << Call("unsubscribe", EmptyObject), Call("close", EmptyObject) >>

\* C29: for every AddTodo or UpdateTodo event the TodoBloc has reduced, the
\* states emitted are exactly TodoSaving(todo) followed by one outcome:
\* TodoSaved(saved) when the service returned a to-do (always for AddTodo,
\* with a new id; for UpdateTodo when the service knows the id), or
\* TodoNotSaved(todo) when updateTodo returned null.
C29_SavingThenOutcome ==
    op.name = "complete" =>
        LET todo == EventTodo(op.arg)
            outcome == IF savedTodo # NullRef
                       THEN TodoSaved(savedTodo) ELSE TodoNotSaved(todo)
        IN  /\ Yielded = << [event |-> op.arg, state |-> TodoSaving(todo)],
                            [event |-> op.arg, state |-> outcome] >>
            /\ EventType(op.arg) = "AddTodo" =>
                  /\ savedTodo = [id |-> service.nextId - 1,
                                  contents |-> todo.contents]
                  /\ service.todos[service.nextId - 1] = savedTodo
            /\ EventType(op.arg) = "UpdateTodo" =>
                  /\ savedTodo = NullRef <=> todo.id \notin DOMAIN service.todos
                  /\ savedTodo # NullRef => savedTodo = todo

\* An UpdateTodo for an id the service does not know has been reduced:
\* TodoSaving and then TodoNotSaved.
C29_Witness ==
    /\ op.name = "complete"
    /\ EventType(op.arg) = "UpdateTodo"
    /\ service.todos = << >>
    /\ Len(Yielded) = 2
    /\ Yielded[1].state = TodoSaving([id |-> 1, contents |-> "b"])
    /\ Yielded[2].state = TodoNotSaved([id |-> 1, contents |-> "b"])

\* C27: when navigate is called with non-empty params for a path whose
\* earlier, different params no route entry has consumed yet, the store
\* afterwards holds the later params under that path (and the other paths'
\* entries as they were); the next route entry at that path assigns from the
\* later params or the URL, and assigns no value of the overwritten params
\* that the later params or the URL do not also carry.
C27_SecondNavigateWins ==
    [][ /\ (/\ op'.name = "navigate"
            /\ Cardinality(DOMAIN op'.arg.params) > 0
            /\ op'.arg.path \in DOMAIN window
            /\ window[op'.arg.path] # op'.arg.params) =>
              /\ window'[op'.arg.path] = op'.arg.params
              /\ DOMAIN window' = DOMAIN window
              /\ \A k \in (DOMAIN window) \ {op'.arg.path} : window'[k] = window[k]
              /\ replaced' = [path |-> op'.arg.path, params |-> window[op'.arg.path]]
        /\ (/\ op'.name = "onBeforeEnter"
            /\ StoreKey(pending) \in DOMAIN window
            /\ StoreKey(pending) = replaced.path) =>
              LET first == replaced.params
                  second == window[StoreKey(pending)]
                  url == combinedParams(Resolve(pending))
                  got(bag, k) == IF k \in DOMAIN bag THEN bag[k] ELSE Undefined
              IN  /\ second # first
                  /\ \A e \in Assigned(calls') :
                        /\ e.value = Coalesce(got(second, e.key), url[e.key])
                        /\ e.value = got(first, e.key) =>
                              \/ got(second, e.key) = got(first, e.key)
                              \/ url[e.key] = got(first, e.key)
                  /\ StoreKey(pending) \notin DOMAIN window' ]_vars

\* navigate('/users/42?user=7', { user: UserObj, status: StatusObj }) and then
\* navigate('/users/42?user=7', { user: null }) before any entry: the entry
\* assigns the URL's "7", and the first call's UserObj is gone.
C27_Witness ==
    /\ op.name = "onBeforeEnter"
    /\ op.arg = "/users/42?user=7"
    /\ Assigned(calls) = {Entry("user", "7")}
    /\ props = [user |-> "7"]
    /\ window = EmptyObject
    /\ replaced = [path |-> "/users/42?user=7",
                   params |-> [user |-> "UserObj", status |-> "StatusObj"]]
    /\ delivered = [k \in {"/users/42?user=7"} |-> [user |-> Null]]

\* C26, as stated: whenever the callback of a listener registered after the
\* component was mounted runs for an emitted state, the component has
\* already rendered that state.
C26_ListenerSeesRendered ==
    [][ op'.name = "emit" =>
          \A j \in DOMAIN calls' :
              calls'[j].call = "resolve" =>
                  \E i \in 1..(j - 1) :
                      /\ calls'[i].call = "litRender"
                      /\ calls'[i].data.state = op'.arg ]_vars

\* C26, amended: a yielded state becomes the Bloc's state and is delivered
\* once to every current subscription, in the order the subscriptions were
\* taken, within the one step of the yield; so when the component's own
\* subscription is still among them, a listener registered after the mount
\* runs after the component has rendered that state.
C26_SubscriptionOrder ==
    [][ op'.name = "emit" =>
          LET cbs == SelectSeq(calls', LAMBDA c : c.call \in {"listen", "resolve"})
          IN  /\ blocState' = op'.arg
              /\ Len(cbs) = Len(observers)
              /\ \A i \in DOMAIN observers :
                    IF observers[i] = TestListener
                    THEN cbs[i] = Call("resolve", op'.arg)
                    ELSE cbs[i].call = "listen" /\ cbs[i].data.state = op'.arg
              /\ \A i \in DOMAIN observers' : observers'[i] # TestListener
              /\ (\E i \in DOMAIN observers : observers[i] = subscription) =>
                    /\ \A j \in DOMAIN calls' :
                          calls'[j].call = "resolve" =>
                              \E i \in 1..(j - 1) :
                                  /\ calls'[i].call = "litRender"
                                  /\ calls'[i].data.state = op'.arg
                    /\ rendered'.state = op'.arg ]_vars

\* The mounted component and the test's listener are both served 'initialnext':
\* the component's hook and render come first, the listener's callback last.
C26_Witness ==
    /\ op.name = "emit"
    /\ op.arg = "initialnext"
    /\ isConnected
    /\ observers = << subscription >>
    /\ Len(calls) = 5
    /\ calls[1].call = "listen"
    /\ calls[4].call = "litRender"
    /\ calls[4].data.state = "initialnext"
    /\ calls[5] = Call("resolve", "initialnext")

EmissionsOf(event) ==
    SelectSeq(history.emitted, LAMBDA x : x.event = event)

\* The ids of the to-dos in a list.
ListIds(todos) == {todos[i].id : i \in DOMAIN todos}

\* C30: once the service has removed the to-do of a RemoveTodo event and
\* the TodoListBloc stays open, a TodoListLoaded without that to-do is
\* eventually emitted for the removal.  It is the only state the removal
\* emits (the RemoveTodo reduction itself yields none), and no state emitted
\* by any LoadTodoList, before or after, lists a to-do the service no longer
\* holds.
C30_RemovedThenReloaded ==
    /\ [][ op'.name = "emit" =>
             /\ op'.arg.type = "TodoListLoaded"
             /\ ListIds(op'.arg.todos) = DOMAIN service.todos ]_vars
    /\ [](\A e \in RemoveTodoEvents :
             /\ EmissionsOf(e) = << >>
             /\ Len(EmissionsOf(ReloadOf(e))) <= 1
             /\ \A i \in DOMAIN EmissionsOf(ReloadOf(e)) :
                   RemoveTodoItem(e).id
                       \notin ListIds(EmissionsOf(ReloadOf(e))[i].state.todos))
    /\ \A e \in RemoveTodoEvents :
          (op.name = "call" /\ op.arg = e)
              ~> (\/ Len(EmissionsOf(ReloadOf(e))) = 1
                  \/ blocPhase # "open")

\* The LoadTodoList of the mount was reduced first and showed both to-dos; the removal of
\* to-do 1 then led to a TodoListLoaded with to-do 2 alone, the last state
\* emitted, on a Bloc that is still open.
C30_Witness ==
    /\ blocPhase = "open"
    /\ isConnected
    /\ history.emitted =
          << [event |-> "LoadTodoList'",
              state |-> TodoListLoaded(<< [id |-> 1, contents |-> "a"],
                                          [id |-> 2, contents |-> "a"] >>)],
             [event |-> ReloadOf("RemoveTodo(1)'"),
              state |-> TodoListLoaded(<< [id |-> 2, contents |-> "a"] >>)] >>
    /\ blocState = TodoListLoaded(<< [id |-> 2, contents |-> "a"] >>)
    /\ DOMAIN service.todos = {2}
    /\ deferred = << >>

\* C31: disconnectedCallback leaves a bound Bloc not open, and a Bloc that
\* is not open never opens again.  From then on an add changes nothing, no
\* reduction starts, a mount obtains no served subscription, a state that a
\* reduction still in flight emits reaches neither the listen hook nor a
\* render, and the only operations that render are setProps and the mount
\* itself.
C31_ClosedForGood ==
    [][ /\ (hasBloc /\ op'.name \in {"unmount", "disconnected"}) =>
              blocPhase' # "open"
        /\ blocPhase # "open" =>
              /\ blocPhase' # "open"
              /\ op'.name # "start"
              /\ op'.name = "add" =>
                    /\ queue' = queue /\ running' = running
                    /\ blocState' = blocState /\ calls' = << >>
                    /\ rendered' = rendered
              /\ op'.name = "mount" => observers' = observers
              /\ op'.name = "emit" => calls' = << >> /\ rendered' = rendered
              /\ CallsOf(calls', "render") # << >> =>
                    op'.name \in {"setProps", "mount"} ]_vars

\* The component was mounted, removed and mounted again; an event added
\* after that is dropped by the closed Bloc.
C31_Witness ==
    /\ op.name = "add"
    /\ hasBloc
    /\ mounts = 2
    /\ isConnected
    /\ blocPhase = "closed"
    /\ queue = << >>
    /\ running = NoGen
    /\ blocState = "initial"
    /\ rendered = [state |-> "initial"]

\* C32, as stated: whenever the component is mounted, the data of its most
\* recent render is the property bag merged with the Bloc's current state
\* (undefined without a Bloc).
C32_NeverStale ==
    isConnected => rendered = RenderData(props, BlocStateOf(hasBloc, blocState))

\* C32, amended: whenever the component is mounted and, if it has a Bloc,
\* the Bloc was open when it was mounted, the data of its most recent render
\* is the property bag merged with the Bloc's current state (undefined
\* without a Bloc).
C32_NeverStaleWhileServed ==
    (isConnected /\ history.late = {}) =>
        rendered = RenderData(props, BlocStateOf(hasBloc, blocState))

\* A mounted component with props { name: 'Alice' } has just been served
\* the state 'initialnext' and shows both.
C32_Witness ==
    /\ op.name = "emit"
    /\ isConnected
    /\ hasBloc
    /\ history.late = {}
    /\ blocState = "initialnext"
    /\ props = [name |-> "Alice"]
    /\ rendered = [name |-> "Alice", state |-> "initialnext"]

\* C33: the Bloc never holds more than one subscription of the component;
\* the one it holds is the component's current #subscription; and it holds
\* none while the component is not mounted, before the first mount included.
C33_OneLiveSubscription ==
    /\ Len(observers) <= 1
    /\ \A i \in DOMAIN observers : observers[i] = subscription /\ subscription # 0
    /\ ~isConnected => observers = << >>
    /\ mounts = 0 => subscription = 0
    /\ ~hasBloc => subscription = 0

\* The component was removed while a reduction was in flight: the Bloc is
\* closing and the component's subscription has ended.
C33_Witness ==
    /\ op.name = "unmount"
    /\ hasBloc
    /\ ~isConnected
    /\ subscription = 1
    /\ blocPhase = "closing"
    /\ running # NoGen
    /\ observers = << >>

\* C34: a setProps call or an emission of the Bloc that calls styles(),
\* render(data) or the renderer does so on a mounted component; on a
\* component that is not mounted either of them makes no such call and
\* leaves the last render as it was.
C34_RendersOnlyWhileMounted ==
    [][ op'.name \in {"setProps", "emit"} =>
          /\ isConnected' = isConnected
          /\ (\E i \in DOMAIN calls' :
                  calls'[i].call \in {"styles", "render", "litRender"}) =>
                isConnected /\ mounts >= 1
          /\ ~isConnected => rendered' = rendered ]_vars

\* After a mount and an unmount, setProps({ name: 'Alice' }) changes the bag
\* and renders nothing: the last render is still the one without the name.
C34_Witness ==
    /\ op.name = "setProps"
    /\ ~isConnected
    /\ mounts = 1
    /\ props = [name |-> "Alice"]
    /\ calls = << >>
    /\ rendered = [state |-> BlocStateOf(hasBloc, blocState)]

\* C35: in every emission the state in the data of the listen hook, the
\* state in the data of the render that follows it, the emitted state and
\* the Bloc's state after the emission are one and the same value.
C35_HookAndRenderState ==
    [][ op'.name = "emit" =>
          \A i \in DOMAIN calls' :
              calls'[i].call = "listen" =>
                  /\ i + 2 \in DOMAIN calls'
                  /\ calls'[i + 2].call = "render"
                  /\ calls'[i].data.state = op'.arg
                  /\ calls'[i + 2].data.state = calls'[i].data.state
                  /\ calls'[i + 2].data.state = blocState' ]_vars

\* The mounted to-do screen is served TodoSaved, the second state of one
\* reduction: the hook and the render both get it.
C35_Witness ==
    /\ op.name = "emit"
    /\ op.arg.type = "TodoSaved"
    /\ isConnected
    /\ Len(calls) = 4
    /\ calls[1].call = "listen"
    /\ calls[1].data.state = op.arg
    /\ calls[3].call = "render"
    /\ calls[3].data.state = op.arg
    /\ blocState = op.arg

\* C36: navigate with params stores them under the key the route entry at
\* that path reads and deletes (pathname + search), every route entry leaves
\* no entry under its key, and the store is empty whenever the Router has no
\* navigation pending.
C36_StoreEmptyWhenIdle ==
    /\ [][ (op'.name = "navigate" /\ Cardinality(DOMAIN op'.arg.params) > 0) =>
              /\ StoreKey(op'.arg.path) = op'.arg.path
              /\ op'.arg.path \in DOMAIN window'
              /\ window'[op'.arg.path] = op'.arg.params ]_vars
    /\ [][ op'.name = "onBeforeEnter" =>
              StoreKey(pending) \notin DOMAIN window' ]_vars
    /\ [](pending = NoPath => window = EmptyObject)

====
